---- MODULE Spec2Model ----
(***************************************************************************)
(* A model of the Telegram relay bot in src/main.py.                       *)
(*                                                                         *)
(* Spec      : the inbound handlers (message_handler, photo_handler,       *)
(*             voice_handler) and cancel_generation_callback as asyncio    *)
(*             tasks interleaved at their await points, over the shared    *)
(*             active_requests dict, the users table (quota ledger) and    *)
(*             the conversations table.                                    *)
(*                                                                         *)
(* SpecRelay : message_handler from the creation of the placeholder unit    *)
(*             to its finally clause (lines 896-1107) for one admitted     *)
(*             request: the fragments of the provider stream, the channel  *)
(*             edits with their failures, the clock, and the locals        *)
(*             full_raw_response, current_message_text, message_count,     *)
(*             current_message_id, last_edit_time and formatting_failed.   *)
(*                                                                         *)
(* Scheduling: aiogram's polling runs every update's handler as a task of  *)
(* its own on one event loop, so a step of the model is the code a task    *)
(* runs between two awaits.  task.cancel() makes the cancelled task's next *)
(* resumption raise CancelledError, which `except Exception` does not      *)
(* catch.                                                                  *)
(***************************************************************************)
EXTENDS Integers, Sequences, FiniteSets, TLC

\* ---------------------------------------------------------------- bounds
NumTasks == 2
MaxCancels == 2
UnitMax == 6          \* a small unit maximum, on which overflow is reached
MaxFragments == 4     \* fragments the provider yields for one answer
MaxFaults == 2        \* channel calls that fail during one answer
MaxClock == 4         \* the clock, in half seconds
MaxTurns == 6         \* turns appended to the conversations table
MaxSplitText == 5     \* the length of a text given to split_text
MaxSplitLength == 3   \* the chunk length given to split_text
MaxMarkdown == 6      \* the length of a text given to markdown_to_telegram_html
MaxSeconds == 2       \* the clock of the table, in seconds
RetryAfterTicks == 2  \* the flood-control delay the channel signals

\* ------------------------------------------------------ program constants
CONVERSATION_HISTORY_LIMIT == 5
DAILY_ALLOWANCE == 7
TELEGRAM_MAX_LENGTH == 4000
EditInterval == 3     \* edit_interval = 1.5 s, in half seconds

Users == {"u1"}
Tasks == 1..NumTasks
Callbacks == 1..MaxCancels
Kinds == {"text", "photo", "voice"}
NoDay == 0 - 1

VARIABLES
    active_requests,  \* dict user_id -> task
    users,            \* the users table: user_id -> row
    today,            \* the current UTC date, as a day number
    conversations,    \* the conversations table: user_id -> turns, oldest first
    tasks,            \* the handler tasks: position and locals
    callbacks,        \* the cancel_generation_callback tasks
    relay,            \* message_handler's streaming relay: position and locals
    history,          \* the rows of the conversations table, with timestamps
    split,            \* a call of split_text: its arguments and locals
    transcode         \* a call of markdown_to_telegram_html: argument and result

\* The variables of the handlers, and those of the specifications that
\* exercise one function by itself.
handler_vars == <<active_requests, users, today, conversations, tasks, callbacks, relay>>
function_vars == <<history, split, transcode>>

vars == <<handler_vars, function_vars>>

\* ------------------------------------------------------------ dict helpers
\* active_requests.pop(user_id, None)
DictPop(d, u) == [x \in (DOMAIN d) \ {u} |-> d[x]]

\* active_requests[user_id] = task
DictPut(d, u, t) == [x \in (DOMAIN d) \cup {u} |-> IF x = u THEN t ELSE d[x]]

\* ------------------------------------------------------- conversations
\* The newest CONVERSATION_HISTORY_LIMIT turns of a user are kept.
Newest(s, n) == IF Len(s) <= n THEN s ELSE SubSeq(s, Len(s) - n + 1, Len(s))

\* A faulty store, which C12 must tell from the real one: the INSERT runs
\* twice.
add_message_twice(conv, u, role, t) ==
    [conv EXCEPT ![u] = Newest(Append(Append(@, [role |-> role, task |-> t]),
                                      [role |-> role, task |-> t]),
                               CONVERSATION_HISTORY_LIMIT)]

add_message_to_db(conv, u, role, t) ==
    [conv EXCEPT ![u] = Newest(Append(@, [role |-> role, task |-> t]),
                               CONVERSATION_HISTORY_LIMIT)]

\* ------------------------------------------- the table and its timestamps
\* A row of conversations: id is the AUTOINCREMENT key, timestamp the value of
\* CURRENT_TIMESTAMP (whole seconds) at the INSERT.
Row(id, u, now) == [id |-> id, user_id |-> u, timestamp |-> now]

RowsOf(rows, u) == {r \in rows : r.user_id = u}

\* SELECT ... ORDER BY timestamp DESC LIMIT n: the sets of rows the query may
\* return.  Rows of equal timestamp come in an order SQL leaves open.
Latest(rows, n) ==
    {K \in SUBSET rows :
        /\ Cardinality(K) = (IF Cardinality(rows) < n THEN Cardinality(rows) ELSE n)
        /\ \A k \in K, r \in rows \ K : k.timestamp >= r.timestamp}

\* The INSERT and the DELETE ... WHERE id NOT IN (...) AND user_id = ?, lines
\* 308-324: the tables the call may leave.
add_message_to_sqlite(rows, id, u, now) ==
    LET all == rows \cup {Row(id, u, now)} IN
    {(all \ RowsOf(all, u)) \cup K : K \in Latest(RowsOf(all, u), CONVERSATION_HISTORY_LIMIT)}

\* The orders, oldest first, in which ORDER BY timestamp may have listed the
\* rows K: among rows of one timestamp any order.
RECURSIVE OldestFirst(_)
OldestFirst(K) ==
    IF K = {} THEN {<< >>}
    ELSE UNION {{<<r.id>> \o s : s \in OldestFirst(K \ {r})} :
                   r \in {k \in K : \A x \in K : k.timestamp <= x.timestamp}}

\* The ids of the rows fetched at lines 339-343, reversed at line 349: the
\* lists the call may return.
get_last_messages_sqlite(rows, u, limit) ==
    UNION {OldestFirst(K) : K \in Latest(RowsOf(rows, u), limit)}

\* owner[i] is the user whose turn got id i; read is what get_last_messages
\* has just returned to reader.
IdleHistory ==
    [rows |-> {}, owner |-> << >>, now |-> 0, read |-> << >>, reader |-> "none"]

\* No call of split_text or of markdown_to_telegram_html is under way.
IdleSplit == [pc |-> "idle", text |-> << >>, length |-> 0, start |-> 0, chunks |-> << >>]
IdleTranscode == [pc |-> "idle", text |-> << >>, code_blocks |-> << >>, result |-> << >>]

\* ------------------------------------------------------------------ texts
\* A text is a sequence of characters.  The characters fragments are made of:
\* a letter, a character html.escape replaces, and white space.
Alphabet == {"a", "<", " "}

Ellipsis == <<".", ".", ".">>
Hourglass == <<"hourglass">>       \* the one-character placeholder text

Repeat(c, n) == [i \in 1..n |-> c]

Max(a, b) == IF a >= b THEN a ELSE b
Min(a, b) == IF a <= b THEN a ELSE b

\* html.escape(text, quote=False)
RECURSIVE html_escape(_)
html_escape(s) ==
    IF s = << >> THEN << >>
    ELSE (IF Head(s) = "<" THEN <<"&", "l", "t", ";">> ELSE <<Head(s)>>)
         \o html_escape(Tail(s))

\* text.strip()
RECURSIVE StripLeft(_)
StripLeft(s) == IF s # << >> /\ Head(s) = " " THEN StripLeft(Tail(s)) ELSE s

RECURSIVE StripRight(_)
StripRight(s) ==
    IF s # << >> /\ s[Len(s)] = " " THEN StripRight(SubSeq(s, 1, Len(s) - 1)) ELSE s

\* markdown_to_telegram_html on texts over Alphabet: no code block, link,
\* heading or emphasis marker occurs in them, so what acts is html.escape and
\* the final strip().
markdown_to_telegram_html(s) ==
    IF s = << >> THEN << >> ELSE StripRight(StripLeft(html_escape(s)))

\* The fragments the provider can yield (never an empty one): one character,
\* or a fragment longer than the small unit maximum.
LongFragment == Repeat("a", UnitMax + 1)
Fragments == {<<c>> : c \in Alphabet} \cup {LongFragment}

RECURSIVE Flatten(_)
Flatten(ss) == IF ss = << >> THEN << >> ELSE Head(ss) \o Flatten(Tail(ss))

\* ------------------------------------------------------------ the relay
RelayUser == "u1"
RelayTask == 1

\* A provider that yields any fragments at any times, relayed with the small
\* unit maximum.
FreeProvider ==
    [name |-> "free", max_length |-> UnitMax, scripted |-> FALSE, script |-> << >>]

\* Providers that yield given fragments at given times (in half seconds after
\* the creation of the placeholder unit), each with its unit maximum.
OverflowExample ==
    [name |-> "overflow", max_length |-> 10, scripted |-> TRUE,
     script |-> <<[text |-> Repeat("a", 10), at |-> 0],
                  [text |-> Repeat("b", 10), at |-> 0]>>]

EndToEndExample ==
    [name |-> "end to end", max_length |-> TELEGRAM_MAX_LENGTH, scripted |-> TRUE,
     script |-> <<[text |-> <<"H", "e", "l">>, at |-> 0],
                  [text |-> <<"l", "o", ",", " ">>, at |-> 1],
                  [text |-> <<"w", "o", "r", "l", "d">>, at |-> 2],
                  [text |-> <<"!">>, at |-> 4]>>]

\* Fragments 0 s, 0.5 s and 2.0 s after an instant that lies 2 s after the
\* creation of the placeholder unit ...
ThrottleExample ==
    [name |-> "throttle", max_length |-> TELEGRAM_MAX_LENGTH, scripted |-> TRUE,
     script |-> <<[text |-> <<"a">>, at |-> 4],
                  [text |-> <<"b">>, at |-> 5],
                  [text |-> <<"c">>, at |-> 8]>>]

\* ... and 0 s, 0.5 s and 2.0 s after the creation itself.
ThrottleAtCreation ==
    [name |-> "throttle at creation", max_length |-> TELEGRAM_MAX_LENGTH, scripted |-> TRUE,
     script |-> <<[text |-> <<"a">>, at |-> 0],
                  [text |-> <<"b">>, at |-> 1],
                  [text |-> <<"c">>, at |-> 4]>>]

\* All the text a scripted provider yields.
RECURSIVE ScriptText(_)
ScriptText(script) ==
    IF script = << >> THEN << >> ELSE Head(script).text \o ScriptText(Tail(script))

Providers ==
    {FreeProvider, OverflowExample, EndToEndExample, ThrottleExample,
     ThrottleAtCreation}

\* The user's row once a fresh allowance has been debited for the request.
RelayUserRow ==
    [free_messages_today |-> DAILY_ALLOWANCE - 1, is_admin |-> FALSE,
     subscription |-> "inactive", last_free_reset_date |-> 1]

\* current_message_id is 0 for None and the number of the unit otherwise.
IdleRelay ==
    [pc |-> "idle", max_length |-> TELEGRAM_MAX_LENGTH,
     full_raw_response |-> << >>, current_message_text |-> << >>,
     chunk |-> << >>, now |-> 0,
     message_count |-> 0, current_message_id |-> 0,
     last_edit_time |-> 0, formatting_failed |-> FALSE,
     \* the task and the cancel_generation_callback that stops it
     cancel_requested |-> FALSE, callback |-> "idle", pressed |-> 0,
     \* the environment: the clock, the provider, the channel and what each
     \* unit shows
     clock |-> 0, fragments |-> 0, faults |-> 0, units |-> 0,
     provider |-> "none", scripted |-> FALSE, script |-> << >>,
     stream |-> "open", backoff |-> FALSE, uneditable |-> FALSE,
     create_failed |-> FALSE, render_raised |-> "no",
     display |-> << >>,
     \* history of the relay
     yielded |-> << >>, segments |-> << >>, stored |-> << >>,
     max_sent |-> 0, rotations |-> 0, finalize_edits |-> 0]

\* ------------------------------------------------------------ the tasks
IdleTask ==
    [kind |-> "none", user |-> "u1", pc |-> "idle", cancel_requested |-> FALSE,
     limit |-> 0, reset_day |-> NoDay,
     got_text |-> FALSE,
     \* history of the task, for the properties
     debited |-> FALSE, restored |-> 0, outcome |-> "",
     \* whether the task has put itself into active_requests, and whether
     \* check_and_consume_limit returned True to it before or after that
     admitted |-> FALSE, approved |-> "no"]

IdleCallback == [pc |-> "idle", user |-> "u1", task |-> 0]

\* The rows a user can have: the one /start writes, spent down, left from
\* yesterday, or changed by /grant_admin and /grant_sub.  A subscription is
\* "expired" when its row says active and subscription_expires has passed,
\* and "active_unparsed" when it says active and subscription_expires lies
\* ahead but get_user returns it as a str, as the sqlite3 connection of line
\* 423 does for what update_user_subscription wrote.
UserRows ==
    [free_messages_today : {0, 1, DAILY_ALLOWANCE}, is_admin : {FALSE},
     subscription : {"inactive"}, last_free_reset_date : {1}]
    \cup
    [free_messages_today : {0}, is_admin : {FALSE},
     subscription : {"inactive", "expired"}, last_free_reset_date : {0}]
    \cup
    [free_messages_today : {1}, is_admin : {FALSE},
     subscription : {"active"}, last_free_reset_date : {1}]
    \cup
    [free_messages_today : {0, 1}, is_admin : {FALSE},
     subscription : {"active_unparsed"}, last_free_reset_date : {1}]
    \cup
    [free_messages_today : {1}, is_admin : {TRUE},
     subscription : {"inactive"}, last_free_reset_date : {1}]

Init ==
    /\ active_requests = << >>
    /\ users \in [Users -> UserRows]
    /\ today = 1
    /\ conversations = [u \in Users |-> << >>]
    /\ tasks = [t \in Tasks |-> IdleTask]
    /\ callbacks = [c \in Callbacks |-> IdleCallback]
    /\ relay = IdleRelay
    /\ history = IdleHistory
    /\ split = IdleSplit
    /\ transcode = IdleTranscode

\* ------------------------------------------------------- handler positions
\* Faulty positions, which C23 must tell from the real ones: message_handler
\* answers an exhausted allowance before its try block, as photo_handler does.
HasFinallyPastLimit(kind, pc) ==
    CASE kind = "text"  -> pc \in {"save_user", "ccl_read", "ccl_deact", "ccl_reset",
                                   "ccl_write", "placeholder", "stream",
                                   "final", "persist", "error_notice"}
      [] kind = "photo" -> pc \in {"busy_reply", "p_download", "save_user", "placeholder",
                                   "stream", "final", "persist", "error_notice"}
      [] kind = "voice" -> pc \in {"v_transcribe", "save_user", "placeholder", "stream",
                                   "final", "persist", "error_notice"}
      [] OTHER -> FALSE

\* Where a task of each kind is inside its try block, so that leaving the
\* handler from there runs its finally clause.
HasFinally(kind, pc) ==
    CASE kind = "text"  -> pc \in {"save_user", "ccl_read", "ccl_deact", "ccl_reset",
                                   "ccl_write", "quota_reply", "placeholder", "stream",
                                   "final", "persist", "error_notice"}
      [] kind = "photo" -> pc \in {"busy_reply", "p_download", "save_user", "placeholder",
                                   "stream", "final", "persist", "error_notice"}
      [] kind = "voice" -> pc \in {"v_transcribe", "save_user", "placeholder", "stream",
                                   "final", "persist", "error_notice"}
      [] OTHER -> FALSE

\* `if user_id in active_requests`
Busy(d, u) == u \in DOMAIN d

\* The finally clause: active_requests.pop(user_id, None)
FinallyCleanup(d, u) == DictPop(d, u)

\* The task record after a step.
Note(t, tk) == tasks' = [tasks EXCEPT ![t] = tk]

\* The handler returns (or an exception leaves it) from position tasks[t].pc.
Leave(t, outcome) ==
    LET tk == tasks[t] IN
    /\ active_requests' = IF HasFinally(tk.kind, tk.pc)
                          THEN FinallyCleanup(active_requests, tk.user)
                          ELSE active_requests
    /\ Note(t, [tk EXCEPT !.pc = "done", !.outcome = outcome])

Running(t) == tasks[t].pc \notin {"idle", "done"} /\ ~tasks[t].cancel_requested

\* --------------------------------------------------- check_and_consume_limit
\* A faulty decision, which C38 must tell from the real one: the debit is
\* made on an exhausted allowance too.
LimitDecisionWithoutFloor(row, day) ==
    IF row.is_admin \/ row.subscription = "active"
    THEN [next |-> "allowed", limit |-> 0, reset_day |-> NoDay]
    ELSE LET due == row.last_free_reset_date < day
             limit == IF due THEN DAILY_ALLOWANCE ELSE row.free_messages_today
         IN  [next |-> IF row.subscription = "expired" THEN "ccl_deact"
                       ELSE IF due THEN "ccl_reset"
                       ELSE "ccl_write",
              limit |-> limit,
              reset_day |-> IF due THEN day ELSE NoDay]

\* From the return of get_user to the next await or the return.
LimitDecision(row, day) ==
    IF row.is_admin \/ row.subscription = "active"
    THEN [next |-> "allowed", limit |-> 0, reset_day |-> NoDay]
    ELSE LET due == row.last_free_reset_date < day
             limit == IF due THEN DAILY_ALLOWANCE ELSE row.free_messages_today
         IN  [next |-> IF row.subscription = "expired" THEN "ccl_deact"
                       ELSE IF due THEN "ccl_reset"
                       ELSE IF limit > 0 THEN "ccl_write" ELSE "refused",
              limit |-> limit,
              reset_day |-> IF due THEN day ELSE NoDay]

\* update_user_limits(db, user_id, limit - 1)
Debit(row, limit) == [row EXCEPT !.free_messages_today = limit - 1]

\* update_user_limits(db, user_id, 7, today)
ResetRow(row, day) ==
    [row EXCEPT !.free_messages_today = DAILY_ALLOWANCE, !.last_free_reset_date = day]

\* A faulty restoration, which C4 must tell from the real one: the UPDATE is
\* never committed.
RestoreNothing(row) == row

\* UPDATE users SET free_messages_today = free_messages_today + 1
RestoreOne(row) == [row EXCEPT !.free_messages_today = @ + 1]

\* Where the handler goes once check_and_consume_limit has returned.
AfterLimit(kind, allowed, busy) ==
    IF ~allowed THEN "quota_reply"
    ELSE IF kind = "text" THEN "placeholder"
    ELSE IF busy THEN "busy_reply" ELSE "p_download"

\* ------------------------------------------------------------- arrivals
\* An update arrives and its handler runs to the first await that matters.
\* message_handler and photo_handler first await get_or_create_user, which
\* finds the row /start wrote; message_handler then checks and registers with
\* no await between, voice_handler does so before its first await, and
\* photo_handler goes on to check_and_consume_limit.
Arrive(t, k, u) ==
    /\ tasks[t].pc = "idle"
    /\ (IF t = 1 THEN TRUE ELSE tasks[t - 1].pc # "idle")
    /\ UNCHANGED <<users, today, function_vars, conversations, callbacks, relay>>
    /\ IF k = "photo"
       THEN /\ active_requests' = active_requests
            /\ Note(t, [tasks[t] EXCEPT !.kind = k, !.user = u, !.pc = "ccl_read"])
       ELSE IF Busy(active_requests, u)
       THEN /\ active_requests' = active_requests
            /\ Note(t, [tasks[t] EXCEPT !.kind = k, !.user = u, !.pc = "busy_reply"])
       ELSE /\ active_requests' = DictPut(active_requests, u, t)
            /\ Note(t, [tasks[t] EXCEPT !.kind = k, !.user = u, !.admitted = TRUE,
                                        !.pc = IF k = "text" THEN "typing"
                                               ELSE "v_transcribe"])

\* The reply to a duplicate request has been sent; the handler returns.
BusyReply(t) ==
    /\ Running(t) /\ tasks[t].pc = "busy_reply"
    /\ UNCHANGED <<users, today, function_vars, conversations, callbacks, relay>>
    /\ Leave(t, "busy")

\* message_handler: `await bot.send_chat_action(...)`, before the try block.
Typing(t) ==
    LET tk == tasks[t] IN
    /\ Running(t) /\ tk.pc = "typing"
    /\ UNCHANGED <<users, today, function_vars, conversations, callbacks, relay>>
    /\ \/ /\ active_requests' = active_requests
          /\ Note(t, [tk EXCEPT !.pc = "save_user"])
       \/ Leave(t, "raised")      \* TelegramAPIError or a network error

\* add_message_to_db(db, user_id, "user", ...); photo_handler registers next.
SaveUserTurn(t) ==
    LET tk == tasks[t] IN
    /\ Running(t) /\ tk.pc = "save_user"
    /\ UNCHANGED <<users, today, function_vars, callbacks, relay>>
    /\ conversations' = add_message_to_db(conversations, tk.user, "user", t)
    /\ CASE tk.kind = "text" ->
              /\ active_requests' = active_requests
              /\ Note(t, [tk EXCEPT !.pc = "ccl_read"])
         [] tk.kind = "photo" ->
              /\ active_requests' = DictPut(active_requests, tk.user, t)
              /\ Note(t, [tk EXCEPT !.pc = "placeholder", !.admitted = TRUE])
         [] OTHER ->
              /\ active_requests' = active_requests
              /\ Note(t, [tk EXCEPT !.pc = "placeholder"])

\* ------------------------------------------- check_and_consume_limit, steps
\* The handler continues after check_and_consume_limit returned `allowed`.
LimitReturns(t, tk, allowed) ==
    Note(t, [tk EXCEPT !.pc = AfterLimit(tk.kind, allowed,
                                         Busy(active_requests, tk.user)),
                       !.limit = 0, !.reset_day = NoDay,
                       !.approved = IF ~allowed THEN "no"
                                    ELSE IF tk.admitted THEN "after_admission"
                                    ELSE "before_admission"])

\* get_user returns the row; admin and subscription are decided on it.
CclRead(t) ==
    LET tk == tasks[t]
        d  == LimitDecision(users[tk.user], today)
        tl == [tk EXCEPT !.limit = d.limit, !.reset_day = d.reset_day]
    IN
    /\ Running(t) /\ tk.pc = "ccl_read"
    /\ UNCHANGED <<active_requests, users, today, function_vars, conversations, callbacks, relay>>
    /\ CASE d.next = "allowed" -> LimitReturns(t, tl, TRUE)
         [] d.next = "refused" -> LimitReturns(t, tl, FALSE)
         [] OTHER -> Note(t, [tl EXCEPT !.pc = d.next])

\* deactivate_subscription returns; the limit read before it is still used.
CclDeact(t) ==
    LET tk == tasks[t] IN
    /\ Running(t) /\ tk.pc = "ccl_deact"
    /\ UNCHANGED <<active_requests, today, function_vars, conversations, callbacks, relay>>
    /\ users' = [users EXCEPT ![tk.user].subscription = "inactive"]
    /\ IF tk.reset_day # NoDay THEN Note(t, [tk EXCEPT !.pc = "ccl_reset"])
       ELSE IF tk.limit > 0 THEN Note(t, [tk EXCEPT !.pc = "ccl_write"])
       ELSE LimitReturns(t, tk, FALSE)

\* update_user_limits(db, user_id, 7, today) returns.
CclReset(t) ==
    LET tk == tasks[t] IN
    /\ Running(t) /\ tk.pc = "ccl_reset"
    /\ UNCHANGED <<active_requests, today, function_vars, conversations, callbacks, relay>>
    /\ users' = [users EXCEPT ![tk.user] = ResetRow(@, tk.reset_day)]
    /\ Note(t, [tk EXCEPT !.pc = "ccl_write"])

\* update_user_limits(db, user_id, limit - 1) returns; the result is True.
CclWrite(t) ==
    LET tk == tasks[t] IN
    /\ Running(t) /\ tk.pc = "ccl_write"
    /\ UNCHANGED <<active_requests, today, function_vars, conversations, callbacks, relay>>
    /\ users' = [users EXCEPT ![tk.user] = Debit(@, tk.limit)]
    /\ LimitReturns(t, [tk EXCEPT !.debited = TRUE], TRUE)

\* The out-of-quota reply has been sent; the handler returns.
QuotaReply(t) ==
    /\ Running(t) /\ tasks[t].pc = "quota_reply"
    /\ UNCHANGED <<users, today, function_vars, conversations, callbacks, relay>>
    /\ Leave(t, "quota")

\* ------------------------------------------------------- media preparation
\* photo_handler: get_file, download_file and get_last_messages.
PhotoDownload(t) ==
    LET tk == tasks[t] IN
    /\ Running(t) /\ tk.kind = "photo" /\ tk.pc = "p_download"
    /\ UNCHANGED <<active_requests, users, today, function_vars, conversations, callbacks, relay>>
    /\ \/ Note(t, [tk EXCEPT !.pc = "save_user"])
       \/ Note(t, [tk EXCEPT !.pc = "error_notice"])     \* the download raised

\* voice_handler: download, ffmpeg, the transcription placeholder and its edit.
\* A failed conversion replies, pops the entry and returns.
VoiceTranscribe(t) ==
    LET tk == tasks[t] IN
    /\ Running(t) /\ tk.kind = "voice" /\ tk.pc = "v_transcribe"
    /\ UNCHANGED <<users, today, function_vars, conversations, callbacks, relay>>
    /\ \/ /\ active_requests' = active_requests
          /\ Note(t, [tk EXCEPT !.pc = "save_user"])
       \/ /\ active_requests' = active_requests
          /\ Note(t, [tk EXCEPT !.pc = "error_notice"])  \* the transcription raised
       \/ Leave(t, "failed")                             \* the conversion failed

\* ------------------------------------------------------------ generation
\* The placeholder unit with the cancel button is created.
Placeholder(t) ==
    LET tk == tasks[t] IN
    /\ Running(t) /\ tk.pc = "placeholder"
    /\ UNCHANGED <<users, today, function_vars, conversations, callbacks, relay>>
    /\ \/ /\ active_requests' = active_requests
          /\ Note(t, [tk EXCEPT !.pc = "stream"])
       \/ /\ tk.kind = "text"                 \* TelegramAPIError: return
          /\ Leave(t, "failed")
       \/ /\ tk.kind # "text"                 \* caught by `except Exception`
          /\ active_requests' = active_requests
          /\ Note(t, [tk EXCEPT !.pc = "error_notice"])

\* The await of the next fragment (with the edits it leads to).
Stream(t) ==
    LET tk == tasks[t] IN
    /\ Running(t) /\ tk.pc = "stream"
    /\ UNCHANGED <<active_requests, users, today, function_vars, conversations, callbacks, relay>>
    /\ \/ Note(t, [tk EXCEPT !.got_text = TRUE])        \* a fragment
       \/ Note(t, [tk EXCEPT !.pc = "final"])           \* the stream ends
       \/ Note(t, [tk EXCEPT !.pc = "error_notice"])    \* the provider raised

\* The final edit of the last unit; the answer is stored if there is one.
Final(t) ==
    LET tk == tasks[t] IN
    /\ Running(t) /\ tk.pc = "final"
    /\ UNCHANGED <<users, today, function_vars, conversations, callbacks, relay>>
    /\ IF tk.got_text
       THEN /\ active_requests' = active_requests
            /\ Note(t, [tk EXCEPT !.pc = "persist"])
       ELSE Leave(t, "no_answer")

\* add_message_to_db(db, user_id, "assistant", full_raw_response)
Persist(t) ==
    LET tk == tasks[t] IN
    /\ Running(t) /\ tk.pc = "persist"
    /\ UNCHANGED <<users, today, function_vars, callbacks, relay>>
    /\ conversations' = add_message_to_db(conversations, tk.user, "assistant", t)
    /\ Leave(t, "completed")

\* The except clause has sent (or failed to send) its notice.
ErrorNotice(t) ==
    /\ Running(t) /\ tasks[t].pc = "error_notice"
    /\ UNCHANGED <<users, today, function_vars, conversations, callbacks, relay>>
    /\ Leave(t, "failed")

\* ---------------------------------------------------------- cancellation
\* The database write a task is awaiting, if any: it runs in a worker thread
\* (asyncio.to_thread) that cancelling the awaiting task does not stop.
AwaitsUsersWrite(tk) == tk.pc \in {"ccl_deact", "ccl_reset", "ccl_write"}
AwaitsTurnWrite(tk) == tk.pc \in {"save_user", "persist"}

UsersWritten(tk) ==
    CASE tk.pc = "ccl_deact" -> [users EXCEPT ![tk.user].subscription = "inactive"]
      [] tk.pc = "ccl_reset" -> [users EXCEPT ![tk.user] = ResetRow(@, tk.reset_day)]
      [] tk.pc = "ccl_write" -> [users EXCEPT ![tk.user] = Debit(@, tk.limit)]
      [] OTHER -> users

TurnWritten(t, tk) ==
    CASE tk.pc = "save_user" -> add_message_to_db(conversations, tk.user, "user", t)
      [] tk.pc = "persist" -> add_message_to_db(conversations, tk.user, "assistant", t)
      [] OTHER -> conversations

\* The cancelled task resumes: its await raises CancelledError, which no
\* except clause of the handlers catches; only a finally clause runs.
Cancelled(t) ==
    LET tk == tasks[t] IN
    /\ tk.cancel_requested /\ tk.pc \notin {"idle", "done"}
    /\ UNCHANGED <<today, function_vars, callbacks, relay>>
    /\ \E written \in BOOLEAN :
          /\ users' = IF written THEN UsersWritten(tk) ELSE users
          /\ conversations' = IF written THEN TurnWritten(t, tk) ELSE conversations
          /\ active_requests' = IF HasFinally(tk.kind, tk.pc)
                                THEN FinallyCleanup(active_requests, tk.user)
                                ELSE active_requests
          /\ Note(t, [tk EXCEPT !.pc = "done", !.outcome = "cancelled",
                                !.debited = @ \/ (written /\ tk.pc = "ccl_write")])

\* cancel_generation_callback up to its first await:
\* task = active_requests.pop(user_id_to_cancel, None); if task: task.cancel()
CancelPress(c, u) ==
    /\ callbacks[c].pc = "idle"
    /\ (IF c = 1 THEN TRUE ELSE callbacks[c - 1].pc # "idle")
    /\ UNCHANGED <<users, today, function_vars, conversations, relay>>
    /\ active_requests' = DictPop(active_requests, u)
    /\ IF Busy(active_requests, u)
       THEN LET t == active_requests[u] IN
            /\ tasks' = [tasks EXCEPT ![t].cancel_requested = (tasks[t].pc # "done")]
            /\ callbacks' = [callbacks EXCEPT ![c] = [pc |-> "restore", user |-> u, task |-> t]]
       ELSE /\ tasks' = tasks
            /\ callbacks' = [callbacks EXCEPT ![c] = [pc |-> "done", user |-> u, task |-> 0]]

\* The restoring UPDATE of cancel_generation_callback, then the removal of the
\* keyboard and the answers, which touch none of the state.
CancelRestore(c) ==
    LET cb == callbacks[c] IN
    /\ cb.pc = "restore"
    /\ UNCHANGED <<active_requests, today, function_vars, conversations, relay>>
    /\ users' = [users EXCEPT ![cb.user] = RestoreOne(@)]
    /\ tasks' = [tasks EXCEPT ![cb.task].restored = @ + 1]
    /\ callbacks' = [callbacks EXCEPT ![c] = [pc |-> "done", user |-> cb.user, task |-> 0]]

Next ==
    \/ \E t \in Tasks, k \in Kinds, u \in Users : Arrive(t, k, u)
    \/ \E t \in Tasks : BusyReply(t)
    \/ \E t \in Tasks : Typing(t)
    \/ \E t \in Tasks : SaveUserTurn(t)
    \/ \E t \in Tasks : CclRead(t)
    \/ \E t \in Tasks : CclDeact(t)
    \/ \E t \in Tasks : CclReset(t)
    \/ \E t \in Tasks : CclWrite(t)
    \/ \E t \in Tasks : QuotaReply(t)
    \/ \E t \in Tasks : PhotoDownload(t)
    \/ \E t \in Tasks : VoiceTranscribe(t)
    \/ \E t \in Tasks : Placeholder(t)
    \/ \E t \in Tasks : Stream(t)
    \/ \E t \in Tasks : Final(t)
    \/ \E t \in Tasks : Persist(t)
    \/ \E t \in Tasks : ErrorNotice(t)
    \/ \E t \in Tasks : Cancelled(t)
    \/ \E c \in Callbacks, u \in Users : CancelPress(c, u)
    \/ \E c \in Callbacks : CancelRestore(c)

Spec == Init /\ [][Next]_vars

\* ================================================= the relay of one answer
\* message_handler has registered the task, stored the user's turn and passed
\* check_and_consume_limit; its locals are as lines 897-903 set them.
RelayInit ==
    /\ active_requests = DictPut(<< >>, RelayUser, RelayTask)
    /\ users = [u \in Users |-> RelayUserRow]
    /\ today = 1
    /\ conversations = add_message_to_db([u \in Users |-> << >>], RelayUser,
                                         "user", RelayTask)
    /\ tasks = [t \in Tasks |-> IdleTask]
    /\ callbacks = [c \in Callbacks |-> IdleCallback]
    /\ history = IdleHistory
    /\ split = IdleSplit
    /\ transcode = IdleTranscode
    /\ \E p \in Providers :
          relay = [IdleRelay EXCEPT !.pc = "placeholder",
                                    !.provider = p.name,
                                    !.max_length = p.max_length,
                                    !.scripted = p.scripted,
                                    !.script = p.script]

\* A faulty resumption, which C32 must tell from the real one: a task whose
\* cancellation was requested goes on as if nothing had been asked.
RelayStepIgnoringCancel(r, conv) ==
    /\ relay' = r
    /\ conversations' = conv
    /\ active_requests' = IF r.pc = "done"
                          THEN FinallyCleanup(active_requests, RelayUser)
                          ELSE active_requests
    /\ UNCHANGED <<users, today, function_vars, tasks, callbacks>>

\* The relay record after a step; a handler that ends runs its finally clause.
RelayStep(r, conv) ==
    /\ ~relay.cancel_requested
    /\ relay' = r
    /\ conversations' = conv
    /\ active_requests' = IF r.pc = "done"
                          THEN FinallyCleanup(active_requests, RelayUser)
                          ELSE active_requests
    /\ UNCHANGED <<users, today, function_vars, tasks, callbacks>>

\* ---------------------------------------------------------------- channel
\* A call of the Bot API succeeds, or fails with TelegramRetryAfter, with
\* "message to edit not found" / "message can't be edited" / "message is not
\* modified", or with another TelegramAPIError.
EditOutcomes(r) ==
    IF r.faults < MaxFaults THEN {"ok", "retry_after", "gone", "rejected"} ELSE {"ok"}

\* The same where every TelegramAPIError is handled alike.
CallOutcomes(r) == IF r.faults < MaxFaults THEN {"ok", "rejected"} ELSE {"ok"}

\* The same for the edits whose handler is `except TelegramAPIError` alone,
\* which TelegramRetryAfter, a subclass, reaches like any other.
FinalizeOutcomes(r) ==
    IF r.faults < MaxFaults THEN {"ok", "retry_after", "rejected"} ELSE {"ok"}

\* A failed call; backoff says that a TelegramRetryAfter was received and the
\* sleep it asks for has not been made.
Fault(r, o) ==
    IF o = "ok" THEN r
    ELSE [r EXCEPT !.faults = @ + 1, !.backoff = @ \/ o = "retry_after"]

\* A call of markdown_to_telegram_html raises.  The handler provides for it
\* (lines 929-933, 1012); it is counted with the failed calls, and the site
\* of the call is remembered.
Raised(r, site) == [r EXCEPT !.faults = @ + 1, !.render_raised = site]

\* The calls of markdown_to_telegram_html made for one fragment return, or
\* the one of the length check raises (line 927, made whatever
\* formatting_failed says), or the one that renders the text to send raises
\* (lines 939 and 986, made only `if not formatting_failed`).
ChunkRenders(r) ==
    IF r.current_message_id = 0 \/ r.faults >= MaxFaults THEN {"ok"}
    ELSE IF r.formatting_failed THEN {"ok", "check_raises"}
    ELSE {"ok", "check_raises", "render_raises"}

\* The same for the render of the last unit, line 1020.
FinalRenders(r) ==
    IF r.formatting_failed \/ r.faults >= MaxFaults THEN {} ELSE {"render_raises"}

\* What a unit shows: the kind of its content, its text, and whether it
\* carries the cancel button.
Unit(kind, text, markup) == [kind |-> kind, text |-> text, markup |-> markup]

NoAnswerNotice == <<"no answer">>
ErrorNoticeText == <<"error">>

\* A successful edit_message_text of the current unit.
Edited(r, kind, text, markup) ==
    [r EXCEPT !.display[r.current_message_id] = Unit(kind, text, markup)]

\* A successful message.answer: a new unit.
Created(r, kind, text, markup) ==
    [r EXCEPT !.display = Append(@, Unit(kind, text, markup)), !.units = @ + 1]

\* A successful edit that sets reply_markup=None on unit n and leaves its text.
Unmarked(r, n) == [r EXCEPT !.display[n].markup = FALSE]

\* A text goes out to the channel for a unit.
Sent(r, text) == [r EXCEPT !.max_sent = Max(@, Len(text))]

\* markdown_to_telegram_html(current_message_text) if not formatting_failed
\* else current_message_text
Shown(r) ==
    IF r.formatting_failed THEN r.current_message_text
    ELSE markdown_to_telegram_html(r.current_message_text)

\* A faulty length test, which C10 must tell from the real one: a text that
\* exactly fills the unit counts as too long.
OverflowsWhenFull(text, max) == Len(text \o Ellipsis) >= max

\* len(html_to_check) > TELEGRAM_MAX_LENGTH
Overflows(text, max) == Len(text \o Ellipsis) > max

\* A faulty throttle, which C20 must tell from the real one: an edit is due
\* as soon as the interval has elapsed.
EditDueAtInterval(now, last) == now - last >= EditInterval

\* now - last_edit_time > edit_interval
EditDue(now, last) == now - last > EditInterval

\* ------------------------------------------------------- the loop's turns
\* Back to the head of the `async for`, waiting for the next fragment.
NextChunk(r) == [r EXCEPT !.pc = "await_chunk", !.chunk = << >>, !.now = 0]

\* `if full_raw_response:` add_message_to_db(..., "assistant", ...)
Store(r) == [r EXCEPT !.pc = IF r.full_raw_response # << >> THEN "persist" ELSE "done"]

\* A faulty version of the code after the loop, which C16 must tell from the
\* real one: the no-answer notice is tied to message_count == 0.
AfterLoopWithoutNotice(r) ==
    LET q == [r EXCEPT !.chunk = << >>, !.now = 0] IN
    IF q.current_message_id # 0 /\ q.current_message_text # << >>
    THEN [q EXCEPT !.pc = "final_edit"]
    ELSE IF q.full_raw_response = << >> /\ q.message_count = 0
            /\ q.current_message_id # 0
    THEN [q EXCEPT !.pc = "no_answer"]
    ELSE Store(q)

\* The code after the loop, up to its first await.
AfterLoop(r) ==
    LET q == [r EXCEPT !.chunk = << >>, !.now = 0] IN
    IF q.current_message_id # 0 /\ q.current_message_text # << >>
    THEN [q EXCEPT !.pc = "final_edit"]
    ELSE IF q.full_raw_response = << >> /\ q.message_count = 1
            /\ q.current_message_id # 0
    THEN [q EXCEPT !.pc = "no_answer"]
    ELSE Store(q)

\* A faulty rotation, which C8 must tell from the real one: the next segment
\* starts empty and the fragment that overflowed is dropped.
RotateDroppingChunk(r) ==
    [r EXCEPT !.segments = Append(@, r.current_message_text),
              !.current_message_text = << >>,
              !.message_count = @ + 1,
              !.rotations = @ + 1,
              !.pc = "drop_markup"]

\* A faulty rotation, which C18 must tell from the real one: the new unit
\* starts by trying the HTML rendering again.
RotateResettingFormat(r) ==
    [r EXCEPT !.segments = Append(@, r.current_message_text),
              !.current_message_text = r.chunk,
              !.message_count = @ + 1,
              !.rotations = @ + 1,
              !.formatting_failed = FALSE,
              !.pc = "drop_markup"]

\* Lines 964-965: the segment is closed and the next starts with the chunk.
Rotate(r) ==
    [r EXCEPT !.segments = Append(@, r.current_message_text),
              !.current_message_text = r.chunk,
              !.message_count = @ + 1,
              !.rotations = @ + 1,
              !.pc = "drop_markup"]

\* The body of the loop for one fragment, up to its first await.  An
\* exception of the length check is caught at line 929, one of the preview's
\* render at line 1012; one of the render of line 939 is not a
\* TelegramAPIError and leaves the loop for `except Exception`.
OnChunk(r, f, t) ==
    IF r.current_message_id = 0
    THEN AfterLoop(r)                                       \* break
    ELSE LET c == IF t = "check_raises"
                  THEN [Raised(r, "check") EXCEPT !.formatting_failed = TRUE] ELSE r
             q == [c EXCEPT !.full_raw_response = @ \o f, !.chunk = f,
                            !.now = r.clock]
             tentative_next_text == q.current_message_text \o f
             html_to_check == IF t = "check_raises" THEN tentative_next_text
                              ELSE markdown_to_telegram_html(tentative_next_text)
         IN  IF Overflows(html_to_check, q.max_length)
             THEN IF t = "render_raises"
                  THEN [Raised(q, "finalize") EXCEPT !.pc = "error_notice"]
                  ELSE IF Shown(q) # << >>
                  THEN [q EXCEPT !.pc = "finalize_part"]
                  ELSE Rotate(q)
             ELSE LET a == [q EXCEPT !.current_message_text = tentative_next_text]
                  IN  IF EditDue(a.now, a.last_edit_time)
                      THEN IF t = "render_raises" THEN NextChunk(Raised(a, "preview"))
                           ELSE [a EXCEPT !.pc = "preview"]
                      ELSE NextChunk(a)

\* ------------------------------------------------------------ the actions
\* message.answer("...", reply_markup=progress_keyboard(user_id)), line 907.
RelayPlaceholder ==
    /\ relay.pc = "placeholder"
    /\ \E o \in CallOutcomes(relay) :
          IF o = "ok"
          THEN RelayStep(Created(Sent([relay EXCEPT !.pc = "await_chunk",
                                                    !.current_message_id = 1,
                                                    !.message_count = 1,
                                                    !.last_edit_time = relay.clock],
                                      Hourglass),
                                 "placeholder", Hourglass, TRUE), conversations)
          ELSE RelayStep([Fault(relay, o) EXCEPT !.pc = "done"], conversations)

\* The provider yields a fragment, some time after the relay asked for it.
RelayChunk ==
    /\ relay.pc = "await_chunk"
    /\ ~relay.scripted
    /\ relay.fragments < MaxFragments
    /\ \E f \in Fragments, c \in relay.clock..MaxClock, t \in ChunkRenders(relay) :
          RelayStep(OnChunk([relay EXCEPT !.clock = c,
                                          !.fragments = @ + 1,
                                          !.yielded = @ \o f], f, t),
                    conversations)

\* The same for a provider whose fragments and their times are given.
RelayScriptedChunk ==
    /\ relay.pc = "await_chunk"
    /\ relay.scripted /\ relay.script # << >>
    /\ LET f == Head(relay.script).text
           c == Max(relay.clock, Head(relay.script).at)
       IN  \E t \in ChunkRenders(relay) :
              RelayStep(OnChunk([relay EXCEPT !.clock = c,
                                              !.fragments = @ + 1,
                                              !.script = Tail(@),
                                              !.yielded = @ \o f], f, t),
                        conversations)

\* The provider's stream ends.
RelayStreamEnd ==
    /\ relay.pc = "await_chunk"
    /\ relay.script = << >>
    /\ RelayStep(AfterLoop([relay EXCEPT !.stream = "ended"]), conversations)

\* The provider raises; `except Exception` takes over.
RelayProviderError ==
    /\ relay.pc = "await_chunk"
    /\ RelayStep([relay EXCEPT !.pc = "error_notice", !.stream = "raised"],
                 conversations)

\* The edit that closes a full unit, line 941, and lines 948-961.
RelayFinalizePart ==
    /\ relay.pc = "finalize_part"
    /\ \E o \in FinalizeOutcomes(relay) :
          LET r == Sent(Fault(relay, o), Shown(relay)) IN
          IF o = "ok"
          THEN RelayStep(Rotate(Edited(r, "closed", Shown(relay), TRUE)), conversations)
          ELSE IF ~r.formatting_failed
          THEN RelayStep([r EXCEPT !.formatting_failed = TRUE,
                                   !.pc = "finalize_part_raw"], conversations)
          ELSE RelayStep(Rotate([r EXCEPT !.current_message_id = 0]), conversations)

\* The raw edit that closes a full unit after the first one failed, line 955.
RelayFinalizePartRaw ==
    /\ relay.pc = "finalize_part_raw"
    /\ \E o \in FinalizeOutcomes(relay) :
          LET r == Sent(Fault(relay, o), relay.current_message_text) IN
          IF o = "ok"
          THEN RelayStep(Rotate(Edited(r, "closed", relay.current_message_text, FALSE)),
                         conversations)
          ELSE RelayStep(Rotate([r EXCEPT !.current_message_id = 0]), conversations)

\* A faulty removal of the button, which C19 must tell from the real one: a
\* failed call is logged and the next unit is opened all the same.
RelayDropMarkupTolerant ==
    /\ relay.pc = "drop_markup"
    /\ IF relay.current_message_id = 0
       THEN RelayStep(AfterLoop(relay), conversations)
       ELSE \E o \in CallOutcomes(relay) :
               IF o = "ok"
               THEN RelayStep(Unmarked([relay EXCEPT !.pc = "new_placeholder"],
                                       relay.current_message_id), conversations)
               ELSE RelayStep([Fault(relay, o) EXCEPT !.pc = "new_placeholder"],
                              conversations)

\* edit_message_reply_markup on the closed unit, line 968.  Without a
\* message id the call fails.
RelayDropMarkup ==
    /\ relay.pc = "drop_markup"
    /\ IF relay.current_message_id = 0
       THEN RelayStep(AfterLoop(relay), conversations)
       ELSE \E o \in CallOutcomes(relay) :
               IF o = "ok"
               THEN RelayStep(Unmarked([relay EXCEPT !.pc = "new_placeholder"],
                                       relay.current_message_id), conversations)
               ELSE RelayStep(AfterLoop([Fault(relay, o) EXCEPT
                                           !.current_message_id = 0]),
                              conversations)

\* message.answer("...") creates the next unit, line 970.
RelayNewPlaceholder ==
    /\ relay.pc = "new_placeholder"
    /\ \E o \in CallOutcomes(relay) :
          IF o = "ok"
          THEN RelayStep(NextChunk(Created(Sent([relay EXCEPT
                                                   !.current_message_id = relay.units + 1,
                                                   !.last_edit_time = relay.clock],
                                                Ellipsis),
                                           "placeholder", Ellipsis, TRUE)),
                         conversations)
          ELSE RelayStep(AfterLoop([Fault(relay, o) EXCEPT
                                      !.current_message_id = 0,
                                      !.create_failed = TRUE]),
                         conversations)

\* The throttled edit of the open unit, lines 985-1013.
RelayPreview ==
    /\ relay.pc = "preview"
    /\ \E o \in EditOutcomes(relay) :
          LET r == Sent(Fault(relay, o), Shown(relay) \o Ellipsis) IN
          CASE o = "ok" ->
                 RelayStep(NextChunk(Edited([r EXCEPT !.last_edit_time = r.now],
                                            "preview", Shown(relay) \o Ellipsis, TRUE)),
                           conversations)
            [] o = "retry_after" ->
                 RelayStep([r EXCEPT !.pc = "retry_sleep"], conversations)
            [] o = "gone" ->
                 RelayStep(NextChunk([r EXCEPT !.current_message_id = 0,
                                               !.uneditable = TRUE]), conversations)
            [] o = "rejected" ->
                 RelayStep(NextChunk([r EXCEPT !.formatting_failed = TRUE]), conversations)

\* asyncio.sleep(e.retry_after + 0.1); last_edit_time = time.monotonic()
RelayRetrySleep ==
    /\ relay.pc = "retry_sleep"
    /\ LET c == Max(relay.clock, Min(relay.clock + RetryAfterTicks, MaxClock)) IN
       RelayStep(NextChunk([relay EXCEPT !.clock = c, !.last_edit_time = c,
                                         !.backoff = FALSE]),
                 conversations)

\* The render of line 1020 and the edit that finalizes the last unit, line
\* 1022.  An exception of the render is not a TelegramAPIError: it passes
\* the handler of line 1036 and reaches `except Exception`.
RelayFinalEdit ==
    /\ relay.pc = "final_edit"
    /\ \E o \in FinalizeOutcomes(relay) \cup FinalRenders(relay) :
          LET r == [Sent(Fault(relay, o), Shown(relay)) EXCEPT !.finalize_edits = @ + 1]
          IN  IF o = "render_raises"
              THEN RelayStep([Raised(relay, "final") EXCEPT !.pc = "error_notice"], conversations)
              ELSE IF o = "ok"
              THEN RelayStep(Edited([r EXCEPT !.pc = "final_menu"],
                                    "final", Shown(relay), FALSE), conversations)
              ELSE RelayStep([r EXCEPT !.pc = "final_raw"], conversations)

\* The message that brings the menu back, line 1030, in the same try block.
RelayFinalMenu ==
    /\ relay.pc = "final_menu"
    /\ \E o \in CallOutcomes(relay) :
          IF o = "ok" THEN RelayStep(Store(relay), conversations)
          ELSE RelayStep([Fault(relay, o) EXCEPT !.pc = "final_raw"], conversations)

\* The raw edit after a TelegramAPIError of the two calls before, line 1041.
RelayFinalRaw ==
    /\ relay.pc = "final_raw"
    /\ \E o \in FinalizeOutcomes(relay) :
          LET r == [Sent(Fault(relay, o), relay.current_message_text)
                      EXCEPT !.finalize_edits = @ + 1]
          IN  IF o = "ok"
              THEN RelayStep(Store(Edited(r, "final", relay.current_message_text, FALSE)),
                             conversations)
              ELSE RelayStep([r EXCEPT !.pc = "final_new"], conversations)

\* The last resort: the text as a message of its own, line 1053.
RelayFinalNew ==
    /\ relay.pc = "final_new"
    /\ \E o \in CallOutcomes(relay) :
          LET r == Sent(Fault(relay, o), relay.current_message_text) IN
          RelayStep(Store(IF o = "ok"
                          THEN Created(r, "final", relay.current_message_text, FALSE)
                          ELSE r),
                    conversations)

\* The notice that the provider returned nothing, lines 1067-1078.
RelayNoAnswer ==
    /\ relay.pc = "no_answer"
    /\ \E o \in CallOutcomes(relay) :
          RelayStep(Store(IF o = "ok"
                          THEN Edited(relay, "no_answer", NoAnswerNotice, FALSE)
                          ELSE Fault(relay, o)),
                    conversations)

\* add_message_to_db(db, user_id, "assistant", full_raw_response), line 1083.
RelayPersist ==
    /\ relay.pc = "persist"
    /\ RelayStep([relay EXCEPT !.pc = "done", !.stored = relay.full_raw_response],
                 add_message_to_db(conversations, RelayUser, "assistant", RelayTask))

\* The except clause, lines 1089-1099: the error notice replaces what the
\* current unit shows, or is sent as a message when there is no unit.
RelayErrorNotice ==
    /\ relay.pc = "error_notice"
    /\ \E o \in CallOutcomes(relay) :
          LET r == [Fault(relay, o) EXCEPT !.pc = "done"] IN
          IF o # "ok" THEN RelayStep(r, conversations)
          ELSE IF r.current_message_id # 0
          THEN RelayStep(Edited(r, "error", ErrorNoticeText, FALSE), conversations)
          ELSE RelayStep(Created(r, "error", ErrorNoticeText, FALSE), conversations)

\* ------------------------------------------- cancellation of the relay
\* The user presses the cancel button of a unit that shows one;
\* cancel_generation_callback runs to its first await (lines 1120-1123).
RelayCancelPress ==
    /\ relay.callback = "idle"
    /\ UNCHANGED <<users, today, function_vars, conversations, tasks, callbacks>>
    /\ \E n \in 1..relay.units :
          /\ relay.display[n].markup
          /\ active_requests' = DictPop(active_requests, RelayUser)
          /\ relay' = IF Busy(active_requests, RelayUser)
                      THEN [relay EXCEPT !.cancel_requested = TRUE,
                                         !.callback = "restore", !.pressed = n]
                      ELSE [relay EXCEPT !.callback = "answer", !.pressed = n]

\* The restoring UPDATE of the callback, lines 1124-1146.
RelayCancelRestore ==
    /\ relay.callback = "restore"
    /\ UNCHANGED <<active_requests, today, function_vars, conversations, tasks, callbacks>>
    /\ users' = [users EXCEPT ![RelayUser] = RestoreOne(@)]
    /\ relay' = [relay EXCEPT !.callback = "answer"]

\* callback.message.edit_reply_markup(reply_markup=None), failure swallowed,
\* then the pop-up answer and the menu message, lines 1148-1161.
RelayCancelAnswer ==
    /\ relay.callback = "answer"
    /\ UNCHANGED <<active_requests, users, today, function_vars, conversations, tasks, callbacks>>
    /\ \E o \in CallOutcomes(relay) :
          LET r == [Fault(relay, o) EXCEPT !.callback = "done", !.pressed = 0] IN
          relay' = IF o = "ok" THEN Unmarked(r, relay.pressed) ELSE r

\* The cancelled relay resumes: its await raises CancelledError and only the
\* finally clause runs.  A database write it was awaiting runs in a worker
\* thread and may still complete.
RelayCancelled ==
    /\ relay.cancel_requested /\ relay.pc \notin {"idle", "done"}
    /\ UNCHANGED <<users, today, function_vars, tasks, callbacks>>
    /\ active_requests' = FinallyCleanup(active_requests, RelayUser)
    /\ \E written \in (IF relay.pc = "persist" THEN BOOLEAN ELSE {FALSE}) :
          /\ conversations' =
                IF written
                THEN add_message_to_db(conversations, RelayUser, "assistant", RelayTask)
                ELSE conversations
          /\ relay' = [relay EXCEPT !.pc = "done", !.chunk = << >>, !.now = 0,
                                    !.stored = IF written THEN relay.full_raw_response
                                               ELSE @]

RelayNext ==
    \/ RelayPlaceholder
    \/ RelayChunk
    \/ RelayScriptedChunk
    \/ RelayStreamEnd
    \/ RelayProviderError
    \/ RelayFinalizePart
    \/ RelayFinalizePartRaw
    \/ RelayDropMarkup
    \/ RelayNewPlaceholder
    \/ RelayPreview
    \/ RelayRetrySleep
    \/ RelayFinalEdit
    \/ RelayFinalMenu
    \/ RelayFinalRaw
    \/ RelayFinalNew
    \/ RelayNoAnswer
    \/ RelayPersist
    \/ RelayErrorNotice
    \/ RelayCancelPress
    \/ RelayCancelRestore
    \/ RelayCancelAnswer
    \/ RelayCancelled

SpecRelay == RelayInit /\ [][RelayNext]_vars

\* ================================================= the table by itself
\* add_message_to_db and get_last_messages called for two users, any number
\* of calls falling into the same second.
HistoryUsers == {"u1", "u2"}

HistoryInit ==
    /\ active_requests = << >>
    /\ users = [u \in Users |-> RelayUserRow]
    /\ today = 1
    /\ conversations = [u \in Users |-> << >>]
    /\ tasks = [t \in Tasks |-> IdleTask]
    /\ callbacks = [c \in Callbacks |-> IdleCallback]
    /\ relay = IdleRelay
    /\ history = IdleHistory
    /\ split = IdleSplit
    /\ transcode = IdleTranscode

\* A second passes.
HistoryTick ==
    /\ history.now < MaxSeconds
    /\ history' = [history EXCEPT !.now = @ + 1, !.read = << >>, !.reader = "none"]
    /\ UNCHANGED <<handler_vars, split, transcode>>

\* add_message_to_db(db, u, role, content)
HistoryAdd(u) ==
    /\ Len(history.owner) < MaxTurns
    /\ \E rows \in add_message_to_sqlite(history.rows, Len(history.owner) + 1,
                                         u, history.now) :
          history' = [history EXCEPT !.rows = rows, !.owner = Append(@, u),
                                     !.read = << >>, !.reader = "none"]
    /\ UNCHANGED <<handler_vars, split, transcode>>

\* get_last_messages(db, u)
HistoryGet(u) ==
    /\ \E read \in get_last_messages_sqlite(history.rows, u,
                                            CONVERSATION_HISTORY_LIMIT) :
          history' = [history EXCEPT !.read = read, !.reader = u]
    /\ UNCHANGED <<handler_vars, split, transcode>>

HistoryNext ==
    \/ HistoryTick
    \/ \E u \in HistoryUsers : HistoryAdd(u)
    \/ \E u \in HistoryUsers : HistoryGet(u)

SpecHistory == HistoryInit /\ [][HistoryNext]_vars

\* ================================================ split_text by itself
\* The characters that matter to split_text: a letter, a space, a newline.
SplitAlphabet == {"a", " ", "\n"}

SplitTexts == UNION {[1..n -> SplitAlphabet] : n \in 0..MaxSplitText}

\* A faulty slice, which C39 must tell from the real one: the white space a
\* chunk was broken at is left out of it.
SliceWithoutBreak(text, a, b) ==
    IF b > a /\ text[b] \in {"\n", " "} THEN SubSeq(text, a + 1, b - 1)
    ELSE SubSeq(text, a + 1, b)

\* text[a:b]
Slice(text, a, b) == SubSeq(text, a + 1, b)

\* A faulty search, which C25 must tell from the real one: it starts at
\* text[end].
BreakAtPastWindow(text, start, end) ==
    LET found == {i \in start..end : text[i + 1] \in {"\n", " "}} IN
    IF found = {} THEN 0 - 1
    ELSE (CHOOSE i \in found : \A j \in found : j <= i) + 1

\* Another search, which C26 must tell from the real one: a newline anywhere
\* in the window is taken before any space.
BreakAtNewlineFirst(text, start, end) ==
    LET lines == {i \in start..(end - 1) : text[i + 1] = "\n"}
        found == IF lines # {} THEN lines
                 ELSE {i \in start..(end - 1) : text[i + 1] = " "}
    IN  IF found = {} THEN 0 - 1
        ELSE (CHOOSE i \in found : \A j \in found : j <= i) + 1

\* Lines 743-751: split_pos, from the search that runs from text[end - 1]
\* down to text[start] and stops at the first newline or space it meets.
BreakAt(text, start, end) ==
    LET found == {i \in start..(end - 1) : text[i + 1] \in {"\n", " "}} IN
    IF found = {} THEN 0 - 1
    ELSE (CHOOSE i \in found : \A j \in found : j <= i) + 1

SplitInit ==
    /\ active_requests = << >>
    /\ users = [u \in Users |-> RelayUserRow]
    /\ today = 1
    /\ conversations = [u \in Users |-> << >>]
    /\ tasks = [t \in Tasks |-> IdleTask]
    /\ callbacks = [c \in Callbacks |-> IdleCallback]
    /\ relay = IdleRelay
    /\ history = IdleHistory
    /\ transcode = IdleTranscode
    /\ \E text \in SplitTexts, length \in 1..MaxSplitLength :
          split = [IdleSplit EXCEPT !.pc = "call", !.text = text, !.length = length]

\* Lines 730-735: a text that fits is returned as it is.
SplitCall ==
    /\ split.pc = "call"
    /\ split' = IF Len(split.text) <= split.length
                THEN [split EXCEPT !.pc = "done", !.chunks = <<split.text>>]
                ELSE [split EXCEPT !.pc = "loop"]
    /\ UNCHANGED <<handler_vars, history, transcode>>

\* One turn of the while loop, lines 736-759.
SplitIterate ==
    /\ split.pc = "loop"
    /\ LET text == split.text
           start == split.start
           end == start + split.length
           split_pos == BreakAt(text, start, end)
       IN  split' =
             IF end >= Len(text)
             THEN [split EXCEPT !.chunks = Append(@, Slice(text, start, Len(text))),
                                !.pc = "done"]
             ELSE IF split_pos # 0 - 1 /\ split_pos > start
             THEN [split EXCEPT !.chunks = Append(@, Slice(text, start, split_pos)),
                                !.start = split_pos,
                                !.pc = IF split_pos < Len(text) THEN "loop" ELSE "done"]
             ELSE [split EXCEPT !.chunks = Append(@, Slice(text, start, end)),
                                !.start = end,
                                !.pc = IF end < Len(text) THEN "loop" ELSE "done"]
    /\ UNCHANGED <<handler_vars, history, transcode>>

SplitNext == SplitCall \/ SplitIterate

SpecSplit == SplitInit /\ [][SplitNext]_vars

\* ================================= markdown_to_telegram_html by itself
\* The characters given to it here: the backtick, the two emphasis markers
\* and a letter.  Without a newline, bracket, #, ~ or | the passes for fenced
\* blocks, links, headings, strikethrough and spoilers find nothing; a tag or
\* the fixed part of a placeholder is one symbol of the text, and so is the
\* backtick, written "backtick".
MarkdownAlphabet == {"backtick", "*", "_", "a"}

MarkdownTexts == UNION {[1..n -> MarkdownAlphabet] : n \in 0..MaxMarkdown}

\* f"@@INLINECODE_{placeholder_counter}@@"
InlinePlaceholder(k) == <<"@@INLINECODE", "_", <<"0", "1", "2">>[k + 1], "@@">>

StartsWith(s, i, pat) ==
    /\ i + Len(pat) - 1 <= Len(s)
    /\ SubSeq(s, i, i + Len(pat) - 1) = pat

\* The first position from i on that holds a character of `set`.
RECURSIVE NextIn(_, _, _)
NextIn(s, i, set) ==
    IF i > Len(s) \/ s[i] \in set THEN i ELSE NextIn(s, i + 1, set)

\* The patterns of the passes: an opening, one or more characters outside
\* `excl`, a closing; `before` and `after` are the look-behind and look-ahead.
InlineCode == [open |-> <<"backtick">>, excl |-> {"backtick"}, close |-> <<"backtick">>,
               before |-> {}, after |-> {}, pre |-> << >>, post |-> << >>]
Bold       == [open |-> <<"*", "*">>, excl |-> {"*"}, close |-> <<"*", "*">>,
               before |-> {}, after |-> {}, pre |-> <<"<b>">>, post |-> <<"</b>">>]
Underline  == [open |-> <<"_", "_">>, excl |-> {"_"}, close |-> <<"_", "_">>,
               before |-> {}, after |-> {}, pre |-> <<"<u>">>, post |-> <<"</u>">>]
ItalicStar == [open |-> <<"*">>, excl |-> {"*"}, close |-> <<"*">>,
               before |-> {"*"}, after |-> {"*"}, pre |-> <<"<i>">>, post |-> <<"</i>">>]
ItalicLine == [open |-> <<"_">>, excl |-> {"_"}, close |-> <<"_">>,
               before |-> {"_"}, after |-> {"_"}, pre |-> <<"<i>">>, post |-> <<"</i>">>]

\* Where the group of a match of p that starts at s[i] ends; 0 without match.
GroupEnd(s, i, p) ==
    LET b == i + Len(p.open)
        j == NextIn(s, b, p.excl)
    IN  IF /\ StartsWith(s, i, p.open)
           /\ (i = 1 \/ s[i - 1] \notin p.before)
           /\ j > b
           /\ StartsWith(s, j, p.close)
           /\ (j + Len(p.close) > Len(s) \/ s[j + Len(p.close)] \notin p.after)
        THEN j - 1 ELSE 0

\* re.sub(pattern, replacement, text), from s[i] on.
RECURSIVE ReSub(_, _, _)
ReSub(s, i, p) ==
    IF i > Len(s) THEN << >>
    ELSE LET e == GroupEnd(s, i, p) IN
         IF e = 0 THEN <<s[i]>> \o ReSub(s, i + 1, p)
         ELSE p.pre \o SubSeq(s, i + Len(p.open), e) \o p.post
              \o ReSub(s, e + Len(p.close) + 1, p)

\* Line 681, re.sub with _extract_inline_code, from s[i] on with
\* placeholder_counter = k: the text and the code_blocks it leaves.
RECURSIVE ExtractInline(_, _, _)
ExtractInline(s, i, k) ==
    IF i > Len(s) THEN [text |-> << >>, code_blocks |-> << >>]
    ELSE LET e == GroupEnd(s, i, InlineCode) IN
         IF e = 0
         THEN LET r == ExtractInline(s, i + 1, k) IN
              [r EXCEPT !.text = <<s[i]>> \o @]
         ELSE LET r == ExtractInline(s, e + 2, k + 1) IN
              [text |-> InlinePlaceholder(k) \o r.text,
               code_blocks |-> <<SubSeq(s, i + 1, e)>> \o r.code_blocks]

\* text.replace(old, new)
RECURSIVE Replace(_, _, _)
Replace(s, old, new) ==
    IF s = << >> THEN << >>
    ELSE IF StartsWith(s, 1, old)
    THEN new \o Replace(SubSeq(s, Len(old) + 1, Len(s)), old, new)
    ELSE <<Head(s)>> \o Replace(Tail(s), old, new)

\* Lines 709-715: the placeholders are replaced by the escaped code, from
\* the k-th entry of code_blocks on.
RECURSIVE Restore(_, _, _)
Restore(s, code_blocks, k) ==
    IF k > Len(code_blocks) THEN s
    ELSE Restore(Replace(s, InlinePlaceholder(k - 1),
                         <<"<code>">> \o html_escape(code_blocks[k]) \o <<"</code>">>),
                 code_blocks, k + 1)

\* Line 724: every asterisk, underscore and tilde left in the text is removed.
RemoveMarkers(s) == SelectSeq(s, LAMBDA c : c \notin {"*", "_", "~"})

\* markdown_to_telegram_html, lines 654-726, pass by pass.
Transcoded(text) ==
    IF text = << >> THEN << >>
    ELSE LET extracted == ExtractInline(text, 1, 0)
             escaped   == html_escape(extracted.text)
             bold      == ReSub(escaped, 1, Bold)
             underline == ReSub(bold, 1, Underline)
             italic    == ReSub(ReSub(underline, 1, ItalicStar), 1, ItalicLine)
             restored  == Restore(italic, extracted.code_blocks, 1)
         IN  RemoveMarkers(StripRight(StripLeft(restored)))

TranscodeInit ==
    /\ active_requests = << >>
    /\ users = [u \in Users |-> RelayUserRow]
    /\ today = 1
    /\ conversations = [u \in Users |-> << >>]
    /\ tasks = [t \in Tasks |-> IdleTask]
    /\ callbacks = [c \in Callbacks |-> IdleCallback]
    /\ relay = IdleRelay
    /\ history = IdleHistory
    /\ split = IdleSplit
    /\ \E text \in MarkdownTexts :
          transcode = [IdleTranscode EXCEPT !.pc = "call", !.text = text]

\* The call returns.
TranscodeCall ==
    /\ transcode.pc = "call"
    /\ transcode' = [transcode EXCEPT
                        !.pc = "done",
                        !.code_blocks = ExtractInline(transcode.text, 1, 0).code_blocks,
                        !.result = Transcoded(transcode.text)]
    /\ UNCHANGED <<handler_vars, history, split>>

TranscodeNext == TranscodeCall

SpecTranscode == TranscodeInit /\ [][TranscodeNext]_vars

\* ====================================================== properties of Spec
\* A task that holds an open generation: its placeholder unit exists and it
\* has not been told to stop.
Generating(t) ==
    /\ tasks[t].pc \in {"stream", "final", "persist"}
    /\ ~tasks[t].cancel_requested

\* C1: single-flight -- at most one generation per user is in flight, whatever
\* the interleaving of message_handler, photo_handler and voice_handler.
C1_SingleFlight ==
    \A t1, t2 \in Tasks :
        (t1 # t2 /\ tasks[t1].user = tasks[t2].user)
            => ~(Generating(t1) /\ Generating(t2))

\* C2: a message rejected because the user is busy changes nothing: the step
\* that ends the rejected handler leaves active_requests, the users table and
\* the stored turns as they were, and the handler has debited no quota.
C2_RejectionChangesNothing ==
    [][\A t \in Tasks :
          (tasks[t].pc = "busy_reply" /\ tasks'[t].pc = "done")
              => /\ active_requests' = active_requests
                 /\ users' = users
                 /\ conversations' = conversations
                 /\ ~tasks[t].debited]_vars

\* C3: once a handler task has terminated, on whatever path, active_requests
\* no longer maps its user to it.
C3_SlotReleased ==
    \A t \in Tasks :
        tasks[t].pc = "done"
            => ~(Busy(active_requests, tasks[t].user)
                 /\ active_requests[tasks[t].user] = t)

C5_CreditIffDebit ==
    \A t \in Tasks :
        /\ tasks[t].restored > 0 => tasks[t].debited
        /\ (tasks[t].outcome = "cancelled" /\ tasks[t].debited
              /\ \A c \in Callbacks : callbacks[c].pc # "restore")
             => tasks[t].restored = 1

\* C6: a cancel request for a user with no generation, or whose generation has
\* finished, changes neither the ledger nor the registry; and no generation
\* is restored twice.
C6_CancelIdempotent ==
    [][\A c \in Callbacks :
          LET u == callbacks'[c].user IN
          /\ (callbacks[c].pc = "idle" /\ callbacks'[c].pc # "idle"
                /\ (Busy(active_requests, u) => tasks[active_requests[u]].pc = "done"))
               => /\ callbacks'[c].pc = "done"
                  /\ active_requests' = active_requests
                  /\ users' = users
          /\ \A t \in Tasks : tasks'[t].restored <= 1]_vars

\* ================================================= properties of SpecRelay
\* C7: at every point during and after streaming, full_raw_response is the
\* in-order concatenation of every fragment the provider has yielded to the
\* relay, whatever rotations and edit failures occurred.
C7_FullRawIsYielded ==
    relay.pc # "idle" => relay.full_raw_response = relay.yielded

\* The relay is between two fragments or past the loop: it is not inside the
\* closing of a unit, and was not stopped inside it by a cancellation or by
\* an exception of the render of line 939, which leave the fragment half
\* handled.
BetweenFragments ==
    /\ relay.pc \notin {"idle", "finalize_part", "finalize_part_raw"}
    /\ ~(relay.pc = "done" /\ relay.cancel_requested)
    /\ relay.render_raised # "finalize"

\* C8: after every fragment and at the end of the stream, the raw texts of the
\* closed segments, in order, followed by current_message_text, make up
\* full_raw_response.
C8_SegmentsReproduceRaw ==
    BetweenFragments
        => Flatten(relay.segments) \o relay.current_message_text
               = relay.full_raw_response

\* An answer of three segments has been relayed to its end and stored.
C8_Witness ==
    /\ relay.pc = "done"
    /\ Len(relay.segments) >= 2
    /\ relay.current_message_text # << >>
    /\ relay.stored = relay.full_raw_response
    /\ \A i \in 1..Len(relay.segments) : relay.segments[i] # << >>

\* C9: no text sent to the channel for a unit -- preview with ellipsis, closing
\* edit on overflow, final render; transcoded or raw -- is longer than the
\* unit maximum.
C9_SentWithinMax == relay.max_sent <= relay.max_length

\* The transcoded text is as long as the raw text.
RenderedAsRaw(s) == Len(markdown_to_telegram_html(s)) = Len(s)

\* An answer of at most `room` characters, rendered as long as it is raw, is
\* never rotated; relayed to its end over a channel that fails no call, it is
\* finalized by exactly one edit.
SmallAnswerInOneUnit(room) ==
    (RenderedAsRaw(relay.yielded) /\ Len(relay.yielded) <= room)
        => /\ relay.rotations = 0
           /\ (relay.pc = "done" /\ relay.stored # << >> /\ relay.faults = 0)
                 => relay.finalize_edits = 1

RelayedWhole(p) ==
    /\ relay.provider = p.name
    /\ relay.pc = "done"
    /\ relay.faults = 0 /\ ~relay.cancel_requested /\ relay.callback = "idle"
    /\ relay.stored = ScriptText(p.script)

\* C11: with unit maximum 10 and the fragments "aaaaaaaaaa", "bbbbbbbbbb" the
\* relay creates exactly two units, the first finalized as "aaaaaaaaaa" and
\* the second as "bbbbbbbbbb", and full_raw_response is both in order.
C11_OverflowExample ==
    RelayedWhole(OverflowExample)
        => /\ relay.units = 2
           /\ relay.display[1].text = Repeat("a", 10)
           /\ relay.display[2].text = Repeat("b", 10)
           /\ relay.full_raw_response = Repeat("a", 10) \o Repeat("b", 10)

HelloWorld == <<"H", "e", "l", "l", "o", ",", " ", "w", "o", "r", "l", "d", "!">>

\* C12: with history limit 5, unit maximum 4000 and the fragments "Hel",
\* "lo, ", "world", "!", an admitted text message that passed the quota ends
\* with exactly one unit, whose final text is "Hello, world!", one stored user
\* turn and one stored assistant turn.
C12_EndToEndExample ==
    RelayedWhole(EndToEndExample)
        => /\ relay.units = 1
           /\ relay.display = <<Unit("final", HelloWorld, FALSE)>>
           /\ conversations[RelayUser]
                 = <<[role |-> "user", task |-> RelayTask],
                     [role |-> "assistant", task |-> RelayTask]>>

\* The four fragments have been relayed, a preview having been shown on the
\* way, and the answer is stored.
C12_Witness ==
    /\ RelayedWhole(EndToEndExample)
    /\ relay.fragments = 4
    /\ relay.last_edit_time > 0
    /\ relay.max_length = TELEGRAM_MAX_LENGTH
    /\ CONVERSATION_HISTORY_LIMIT = 5

\* The handler and any cancel callback have run to their ends.
RelayOver == relay.pc = "done" /\ relay.callback \in {"idle", "done"}

\* C13: whichever way an admitted generation ends -- end of the stream,
\* provider error, failing channel calls, a unit that can no longer be edited,
\* cancellation -- its last unit ends as a finalized render without the cancel
\* button, a no-answer notice, a cancellation notice or an error notice, never
\* as the placeholder or a preview.
C13_VisibleOutcome ==
    (RelayOver /\ relay.units > 0)
        => /\ relay.display[relay.units].kind
                 \in {"final", "closed", "no_answer", "cancelled", "error"}
           /\ ~relay.display[relay.units].markup

\* C14: of a generation that was cancelled no assistant turn is stored, at
\* whichever await the cancellation reached the handler.
C14_CancelledNotStored ==
    (relay.pc = "done" /\ relay.cancel_requested)
        => /\ relay.stored = << >>
           /\ \A i \in 1..Len(conversations[RelayUser]) :
                 conversations[RelayUser][i].role # "assistant"

\* C15: when a live generation is cancelled, an edit that replaces what its
\* current unit shows by a cancellation notice is attempted, and the registry
\* slot is released.  Stated for a channel that fails no call, on which the
\* attempted edit shows: once the handler and the callback are over, the
\* current unit shows the notice and the user has no entry.
C15_CancellationNotice ==
    (RelayOver /\ relay.cancel_requested /\ relay.faults = 0)
        => /\ relay.current_message_id # 0
                 => relay.display[relay.current_message_id].kind = "cancelled"
           /\ ~Busy(active_requests, RelayUser)

\* The assistant turns stored for the user.
AssistantTurns ==
    {i \in 1..Len(conversations[RelayUser]) :
        conversations[RelayUser][i].role = "assistant"}

\* C16: when the stream ends without having yielded a fragment, the
\* placeholder unit is rewritten to the no-answer notice, without the cancel
\* button, and no assistant turn is stored.  (The rewriting is stated for a
\* handler that was not cancelled and a channel that failed no call.)
C16_NoAnswerNotice ==
    (relay.pc = "done" /\ relay.stream = "ended" /\ relay.yielded = << >>)
        => /\ relay.stored = << >> /\ AssistantTurns = {}
           /\ (relay.faults = 0 /\ ~relay.cancel_requested)
                 => relay.display = <<Unit("no_answer", NoAnswerNotice, FALSE)>>

\* The stream ended empty and the placeholder now shows the notice.
C16_Witness ==
    /\ relay.pc = "done" /\ relay.stream = "ended" /\ relay.yielded = << >>
    /\ relay.faults = 0 /\ ~relay.cancel_requested
    /\ relay.units = 1 /\ relay.display[1].kind = "no_answer"
    /\ ~Busy(active_requests, RelayUser)

\* C17: when the provider raises before any fragment, the generation ends
\* with the error notice and no assistant turn; when it raises after at least
\* one fragment, the text accumulated so far is finalized on the current unit
\* and stored as the assistant turn.  (Stated for a handler that was not
\* cancelled and a channel that failed no call.)
C17_ProviderErrors ==
    (relay.pc = "done" /\ relay.stream = "raised"
        /\ relay.faults = 0 /\ ~relay.cancel_requested)
        => IF relay.yielded = << >>
           THEN /\ relay.display[relay.units].kind = "error"
                /\ relay.stored = << >> /\ AssistantTurns = {}
           ELSE /\ relay.display[relay.units].kind = "final"
                /\ relay.stored = relay.yielded /\ AssistantTurns # {}

\* C18: once formatting_failed is true during a generation, no step of that
\* generation makes it false again.
C18_FormattingFailedStays ==
    [][relay.formatting_failed => relay'.formatting_failed]_vars

\* formatting_failed was set while a unit was being closed, and the generation
\* went on to a further unit and to the end of the stream with it still set.
C18_Witness ==
    /\ relay.pc = "done" /\ relay.stream = "ended"
    /\ relay.formatting_failed /\ relay.rotations >= 1
    /\ relay.units >= 2 /\ relay.display[relay.units].kind = "final"

\* C19: a unit opened on overflow is never created before the cancel button
\* of the unit before it has been removed: when the placeholder of a new
\* segment is created, the unit that was current until then -- and every
\* earlier one -- shows no reply markup.
C19_ButtonRemovedBeforeNextUnit ==
    [][(relay.pc = "new_placeholder" /\ relay'.units = relay.units + 1)
          => /\ relay.current_message_id \in 1..relay.units
             /\ \A n \in 1..relay.units : ~relay.display[n].markup
             /\ relay'.display[relay'.units].kind = "placeholder"]_vars

\* A second unit has been opened on overflow; it carries the button and the
\* first one no longer does.
C19_Witness ==
    /\ relay.rotations >= 1 /\ relay.units = 2
    /\ relay.current_message_id = 2
    /\ relay.display[2].markup /\ ~relay.display[1].markup
    /\ relay.display[1].kind = "closed"

\* The throttle example on provider p, whose fragments "a", "b" and "c" come
\* at t = 0, t = 0.5 s and t = 2.0 s: on a run without channel failure or
\* cancellation a preview is attempted for the first and the third fragment
\* and for no other, and the preview sent for the third shows all three.
ThrottleSends(p) ==
    (relay.provider = p.name /\ relay.faults = 0 /\ relay'.faults = 0
        /\ ~relay.cancel_requested)
        => /\ (relay.pc = "await_chunk" /\ relay'.fragments = relay.fragments + 1)
                 => (relay'.pc = "preview" <=> relay'.fragments \in {1, 3})
           /\ (relay.pc = "preview" /\ relay.fragments = 3 /\ relay'.pc # "preview")
                 => relay'.display[1].text = <<"a", "b", "c">> \o Ellipsis

\* A preview edit is about to be sent only when more than the minimum
\* interval has elapsed since last_edit_time.
PreviewOnlyWhenDue ==
    relay'.pc = "preview" => relay'.now - relay'.last_edit_time > EditInterval

\* C20 as the code has it: a preview edit is sent for a fragment only if more
\* than 1.5 s have elapsed since last_edit_time, which starts at the creation
\* of the unit; with the unit created more than 1.5 s before t = 0 and
\* attempts at t = 0, t = 0.5 s and t = 2.0 s, exactly those at t = 0 and
\* t = 2.0 s are sent, and the edit at t = 2.0 s contains the text of the
\* suppressed one.
C20_Throttle ==
    [][PreviewOnlyWhenDue /\ ThrottleSends(ThrottleExample)]_vars

\* C20 as stated, whenever t = 0 falls: the same also for attempts that begin
\* at the creation of the unit.
C20_ThrottleWheneverStarted ==
    [][/\ PreviewOnlyWhenDue
       /\ ThrottleSends(ThrottleExample)
       /\ ThrottleSends(ThrottleAtCreation)]_vars

\* The edit of t = 2.0 s has been sent: it shows "abc" and the ellipsis, and
\* last_edit_time is its instant.
C20_Witness ==
    /\ relay.provider = ThrottleExample.name
    /\ relay.fragments = 3 /\ relay.faults = 0 /\ ~relay.cancel_requested
    /\ relay.last_edit_time = ThrottleExample.script[3].at
    /\ relay.display = <<Unit("preview", <<"a", "b", "c">> \o Ellipsis, TRUE)>>

\* The relay is about to attempt an edit of a unit.
AboutToEdit ==
    relay.pc \in {"preview", "finalize_part", "finalize_part_raw", "drop_markup",
                  "final_edit", "final_raw", "no_answer", "error_notice"}

\* C21: when an edit of a unit -- preview, closing of a full unit or final
\* render -- receives TelegramRetryAfter, the relay makes the sleep asked for
\* before it attempts another edit, and neither degrades the formatting nor
\* gives up the unit because of the signal.
C21_BackoffHonoured ==
    [][/\ relay'.backoff => ~AboutToEdit'
       /\ (~relay.backoff /\ relay'.backoff)
             => /\ relay'.formatting_failed = relay.formatting_failed
                /\ relay'.current_message_id = relay.current_message_id]_vars

\* The positions inside check_and_consume_limit.
InLimitCheck(pc) == pc \in {"ccl_read", "ccl_deact", "ccl_reset", "ccl_write"}

\* check_and_consume_limit returns to task t in this step.
LimitCheckReturns(t) ==
    /\ InLimitCheck(tasks[t].pc) /\ ~tasks[t].cancel_requested
    /\ ~InLimitCheck(tasks'[t].pc)

\* The row belongs to an admin or carries an active subscription that has not
\* expired.
Entitled(row) ==
    row.is_admin \/ row.subscription \in {"active", "active_unparsed"}

\* C22: check_and_consume_limit returns false exactly when the user is neither
\* admin nor an active, unexpired subscriber and has no allowance left after
\* the daily reset, and then leaves the allowance as it is; it returns true
\* without changing the allowance for admins and active subscribers, and true
\* with the allowance decreased by exactly one otherwise.
C22_LimitCheckResult ==
    [][\A t \in Tasks :
          LimitCheckReturns(t) =>
             LET row == users[tasks[t].user] IN
             IF tasks'[t].pc = "quota_reply"
             THEN /\ ~Entitled(row)
                  /\ row.free_messages_today = 0
                  /\ ~(row.last_free_reset_date < today)
                  /\ users' = users
             ELSE IF Entitled(row)
             THEN users' = users
             ELSE users'[tasks[t].user].free_messages_today
                     = row.free_messages_today - 1]_vars

\* C23: a handler to which check_and_consume_limit returned false starts no
\* generation -- from the out-of-quota reply it goes nowhere but to its end,
\* having created no placeholder and received no fragment -- and holds no
\* entry of active_requests once it has returned.
C23_RefusedStartsNothing ==
    [][\A t \in Tasks :
          /\ tasks'[t].pc = "quota_reply" => ~tasks'[t].got_text
          /\ tasks[t].pc = "quota_reply"
                => /\ tasks'[t].pc \in {"quota_reply", "done"}
                   /\ tasks'[t].pc = "done"
                         => ~(/\ Busy(active_requests', tasks[t].user)
                              /\ active_requests'[tasks[t].user] = t)]_vars

\* message_handler registered the task, was refused and has returned.
C23_Witness ==
    \E t \in Tasks :
        /\ tasks[t].kind = "text" /\ tasks[t].pc = "done"
        /\ tasks[t].outcome = "quota" /\ ~tasks[t].cancel_requested
        /\ ~Busy(active_requests, tasks[t].user)

\* C24: after any sequence of add_message_to_db calls every user has at most
\* CONVERSATION_HISTORY_LIMIT turns stored, and they are the ones appended
\* last for that user; get_last_messages returns them oldest first; and
\* appending for one user deletes no turn of another.
C24_HistoryWindow ==
    [][/\ \A u \in HistoryUsers :
             /\ Cardinality(RowsOf(history'.rows, u)) <= CONVERSATION_HISTORY_LIMIT
             /\ {r.id : r \in RowsOf(history'.rows, u)}
                   = {i \in 1..Len(history'.owner) :
                         /\ history'.owner[i] = u
                         /\ Cardinality({j \in (i + 1)..Len(history'.owner) :
                                            history'.owner[j] = u})
                               < CONVERSATION_HISTORY_LIMIT}
       /\ history'.reader # "none"
             => /\ \A i, j \in 1..Len(history'.read) :
                      i < j => history'.read[i] < history'.read[j]
                /\ (history'.read # history.read \/ history'.reader # history.reader)
                      => {history'.read[i] : i \in 1..Len(history'.read)}
                            = {r.id : r \in RowsOf(history.rows, history'.reader)}
       /\ Len(history'.owner) > Len(history.owner)
             => \A u \in HistoryUsers \ {history'.owner[Len(history'.owner)]} :
                   RowsOf(history'.rows, u) = RowsOf(history.rows, u)]_vars

\* C25: split_text(text, length) with length >= 1 returns <<text>> when
\* len(text) <= length, and otherwise chunks none of which is empty or longer
\* than length.
C25_ChunksWithinLength ==
    split.pc = "done"
        => IF Len(split.text) <= split.length
           THEN split.chunks = <<split.text>>
           ELSE \A i \in 1..Len(split.chunks) :
                   /\ Len(split.chunks[i]) >= 1
                   /\ Len(split.chunks[i]) <= split.length

\* A text was cut at a space, by a hard cut and at its end.
C25_Witness ==
    /\ split.pc = "done" /\ Len(split.text) > split.length
    /\ Len(split.chunks) >= 3
    /\ \E i, j \in 1..Len(split.chunks) :
          /\ Len(split.chunks[i]) < split.length
          /\ split.chunks[i][Len(split.chunks[i])] = " "
          /\ Len(split.chunks[j]) = split.length
          /\ \A k \in 1..split.length : split.chunks[j][k] = "a"

\* The last position of character c in the text w, 0 when there is none.
LastOf(w, c) ==
    IF \E i \in 1..Len(w) : w[i] = c
    THEN CHOOSE i \in 1..Len(w) : w[i] = c /\ \A j \in (i + 1)..Len(w) : w[j] # c
    ELSE 0

\* The window of the cut made in this step, and the chunk it yields.
CutWindow == Slice(split.text, split.start, split.start + split.length)
CutChunk == split'.chunks[Len(split'.chunks)]
CutMade == split.pc = "loop" /\ split'.start > split.start

\* C26 as the code has it: when split_text cuts, the chunk ends right after
\* the last newline or space of its window of `length` characters, whichever
\* of the two comes later; only if the window has neither is it a hard cut of
\* exactly `length` characters.
C26_LastNewlineOrSpace ==
    [][CutMade
          => LET b == Max(LastOf(CutWindow, "\n"), LastOf(CutWindow, " ")) IN
             Len(CutChunk) = IF b # 0 THEN b ELSE split.length]_vars

\* The first chunk of a text was cut after a space that follows a newline of
\* the same window.
C26_Witness ==
    /\ split.pc \in {"loop", "done"} /\ Len(split.chunks) >= 1
    /\ split.start > 0
    /\ LET chunk == split.chunks[1] IN
          /\ chunk[Len(chunk)] = " "
          /\ \E i \in 1..(Len(chunk) - 1) : chunk[i] = "\n"

\* C26 as stated: when split_text cuts, the chunk ends right after the last
\* newline of its window of `length` characters if the window has a newline;
\* only if it has none, after the last space; only if it has neither is it a
\* hard cut of exactly `length` characters.
C26_NewlineBeforeSpace ==
    [][(split.pc = "loop" /\ split'.start > split.start)
          => LET window == Slice(split.text, split.start, split.start + split.length)
                 chunk == split'.chunks[Len(split'.chunks)]
             IN  Len(chunk) = IF LastOf(window, "\n") # 0 THEN LastOf(window, "\n")
                              ELSE IF LastOf(window, " ") # 0 THEN LastOf(window, " ")
                              ELSE split.length]_vars

\* The text s holds the text part somewhere.
Contains(s, part) == \E i \in 1..(Len(s) + 1) : StartsWith(s, i, part)

\* C27: markdown_to_telegram_html leaves the content of code spans alone:
\* every inline code span of the input, one or several, comes out inside a
\* code element with its characters -- asterisks and underscores among them --
\* as they were, HTML escaping apart.
C27_CodeSpansKept ==
    transcode.pc = "done"
        => \A k \in 1..Len(transcode.code_blocks) :
              Contains(transcode.result,
                       <<"<code>">> \o html_escape(transcode.code_blocks[k])
                                    \o <<"</code>">>)

\* C28: in every handler that starts a generation -- message_handler,
\* photo_handler, voice_handler -- the provider stream is opened only after
\* the handler has been admitted to active_requests and, after that,
\* check_and_consume_limit has returned True for its message.
C28_StreamAfterAdmissionAndQuota ==
    \A t \in Tasks :
        tasks[t].pc = "stream"
            => tasks[t].admitted /\ tasks[t].approved = "after_admission"

\* The handler has returned after a run in which the only failed channel
\* call was a preview edit answered "message to edit not found" or the like,
\* the provider did not raise and nobody cancelled.
UneditableRunOver ==
    /\ relay.pc = "done" /\ relay.uneditable /\ relay.faults = 1
    /\ ~relay.cancel_requested /\ relay.callback = "idle"
    /\ relay.stream # "raised"

\* C29: after an edit has reported that the current unit can no longer be
\* edited, the relay goes on consuming the stream to its end and accumulating
\* every fragment, and a unit created afterwards shows the accumulated text
\* as its final text: nothing accumulated stays undelivered.
C29_UneditableUnitRecreated ==
    UneditableRunOver
        => /\ relay.stream = "ended"
           /\ relay.full_raw_response = relay.yielded
           /\ \E n \in 1..relay.units :
                 /\ relay.display[n].kind = "final"
                 /\ relay.display[n].text = Shown(relay)

\* The handler has returned after a run in which message.answer failed to
\* create the next unit at an overflow, and nobody cancelled.
CreationFailedRunOver ==
    /\ relay.pc = "done" /\ relay.create_failed
    /\ ~relay.cancel_requested /\ relay.callback = "idle"

\* C30: when the creation of the next unit at an overflow fails, the
\* generation fails: the slot of the user is released, the partial answer is
\* not stored as an assistant turn, and the error notice is attempted -- so
\* that it is shown when no other channel call failed.
C30_CreationFailureFails ==
    CreationFailedRunOver
        => /\ ~Busy(active_requests, RelayUser)
           /\ relay.stored = << >> /\ AssistantTurns = {}
           /\ relay.faults = 1
                 => \E n \in 1..relay.units : relay.display[n].kind = "error"

\* The handler has returned after a run in which a call of
\* markdown_to_telegram_html raised and nothing else went wrong: no channel
\* call failed, the provider did not raise and nobody cancelled.
TranscoderFailedRunOver ==
    /\ relay.pc = "done" /\ relay.render_raised # "no" /\ relay.faults = 1
    /\ ~relay.cancel_requested /\ relay.callback = "idle"
    /\ relay.stream # "raised"

\* C31: an exception of markdown_to_telegram_html at any of its call sites
\* -- length check, preview, closing of a full unit, final render -- does not
\* end the generation: formatting_failed is set, the stream is relayed to its
\* end, the last unit is finalized with the raw text and the whole answer is
\* stored.
C31_TranscoderFailureNonFatal ==
    TranscoderFailedRunOver
        => /\ relay.formatting_failed
           /\ relay.stream = "ended"
           /\ relay.stored = relay.yielded
           /\ relay.display[relay.units]
                 = Unit("final", relay.current_message_text, FALSE)

\* The units keep their number, and each its kind and its text.
SameUnits(before, after) ==
    /\ after.units = before.units
    /\ \A n \in 1..before.units :
          /\ after.display[n].kind = before.display[n].kind
          /\ after.display[n].text = before.display[n].text

\* C32: once cancel_generation_callback has called task.cancel(), the task's
\* next step is the CancelledError at the await it is suspended in, which
\* ends it: from the cancel request on no unit is created or rewritten, and
\* no further fragment is taken from the provider or accumulated.
C32_CancelledTaskStops ==
    [][relay.cancel_requested
          => /\ SameUnits(relay, relay')
             /\ relay'.fragments = relay.fragments
             /\ relay'.yielded = relay.yielded
             /\ relay'.full_raw_response = relay.full_raw_response
             /\ relay'.current_message_text = relay.current_message_text
             /\ relay'.pc \in {relay.pc, "done"}]_vars

\* A generation cancelled in the middle of its stream has ended, its last
\* unit still showing what it showed when the request came.
C32_Witness ==
    /\ relay.cancel_requested /\ relay.pc = "done" /\ relay.callback = "done"
    /\ relay.yielded # << >> /\ relay.stream = "open"
    /\ relay.units > 0 /\ relay.display[relay.units].kind = "preview"
    /\ ~Busy(active_requests, RelayUser)

\* ceil(a / b)
CeilDiv(a, b) == (a + b - 1) \div b

\* The stream has been relayed to its end with no failed call and no
\* cancellation, and rendering changed no character of it.
PlainRunOver ==
    /\ relay.pc = "done" /\ relay.stream = "ended"
    /\ relay.faults = 0 /\ ~relay.cancel_requested /\ relay.callback = "idle"
    /\ \A i \in 1..Len(relay.yielded) : relay.yielded[i] = "a"

\* C33: when the fragments together are longer than the unit maximum and
\* render to their own length, the number of units created differs from
\* ceil(total length / unit maximum) by at most 1.
C33_UnitCount ==
    (PlainRunOver /\ Len(relay.yielded) > relay.max_length)
        => LET expected == CeilDiv(Len(relay.yielded), relay.max_length) IN
           /\ relay.units <= expected + 1
           /\ relay.units >= expected - 1

\* update_user_limits(db, user_id, 7, today) of the call made for task t
\* returns in this step, and so does its update_user_limits(db, user_id,
\* limit - 1) after such a reset.
ResetReturns(t) ==
    /\ tasks[t].pc = "ccl_reset" /\ ~tasks[t].cancel_requested
    /\ tasks'[t].pc = "ccl_write"

DebitAfterResetReturns(t) ==
    /\ tasks[t].pc = "ccl_write" /\ tasks[t].reset_day # NoDay
    /\ LimitCheckReturns(t)

\* C34: the allowance of a user without privilege or subscription is reset
\* by the first check_and_consume_limit of a day only -- the row it resets
\* still carries an earlier last_free_reset_date -- which sets it to 7 and
\* the date to today, and then debits it to 6; a call on a row already
\* reset today resets nothing.
C34_DailyReset ==
    [][\A t \in Tasks :
          LET u == tasks[t].user IN
          /\ ResetReturns(t)
                => /\ users[u].last_free_reset_date < today
                   /\ users'[u].free_messages_today = DAILY_ALLOWANCE
                   /\ users'[u].last_free_reset_date = today
          /\ DebitAfterResetReturns(t)
                => /\ users[u].free_messages_today = DAILY_ALLOWANCE
                   /\ users'[u].free_messages_today = DAILY_ALLOWANCE - 1
                   /\ users'[u].last_free_reset_date = today]_vars

\* check_and_consume_limit returns True to task t in this step after a debit
\* with no reset of the day before it.
DebitReturns(t) ==
    /\ tasks[t].pc = "ccl_write" /\ tasks[t].reset_day = NoDay
    /\ LimitCheckReturns(t)

\* The restoring UPDATE of cancel callback c is committed in this step.
RestoreReturns(c) == callbacks[c].pc = "restore" /\ callbacks'[c].pc # "restore"

\* C35: within one day the stored allowance is the initial one, minus one for
\* each call that returned True with a debit, plus one for each restoration,
\* whatever the interleaving -- that is, every such call leaves the stored
\* allowance one below what was stored when it wrote, and every restoration
\* one above: no debit admits a request on a unit another call has taken, and
\* none overwrites a restoration.
C35_QuotaLinearizable ==
    [][/\ \A t \in Tasks :
             DebitReturns(t)
                => users'[tasks[t].user].free_messages_today
                      = users[tasks[t].user].free_messages_today - 1
       /\ \A c \in Callbacks :
             RestoreReturns(c)
                => users'[callbacks[c].user].free_messages_today
                      = users[callbacks[c].user].free_messages_today + 1]_vars

\* C36: whatever messages and cancel requests have been handled, no user's
\* free_messages_today exceeds the daily allowance of 7.
C36_AllowanceAtMostDaily ==
    \A u \in Users : users[u].free_messages_today <= DAILY_ALLOWANCE

\* C38: whatever calls of check_and_consume_limit, resets and restorations
\* have run, no user's free_messages_today is negative.
C38_AllowanceNotNegative ==
    \A u \in Users : users[u].free_messages_today >= 0

\* The last unit of an allowance has been debited for a request, and a
\* further request of the user has been refused on the empty allowance.
C38_Witness ==
    \E t, o \in Tasks :
        /\ tasks[t].debited /\ tasks[t].approved # "no"
        /\ tasks[o].outcome = "quota"
        /\ users[tasks[t].user].free_messages_today = 0
        /\ \A x \in Tasks : tasks[x].restored = 0

\* Task t has registered itself, has not ended, and no cancel request has
\* taken its entry.
HoldsRegistration(t) ==
    /\ tasks[t].admitted /\ tasks[t].pc \notin {"idle", "done"}
    /\ ~tasks[t].cancel_requested

\* The handler of task t ends in this step and the entry of its user goes.
CleanupRemoves(t) ==
    /\ tasks[t].pc # "done" /\ tasks'[t].pc = "done"
    /\ Busy(active_requests, tasks[t].user)
    /\ ~Busy(active_requests', tasks[t].user)

\* C37: from its registration to its own cleanup a handler task is the one
\* active_requests holds for its user, unless a cancel request removed the
\* entry; and the cleanup or early return of a handler removes only the entry
\* that handler put there, never that of another task of the user.
C37_RegistryOwnership ==
    /\ [](\A t \in Tasks :
             HoldsRegistration(t)
                => /\ Busy(active_requests, tasks[t].user)
                   /\ active_requests[tasks[t].user] = t)
    /\ [][\A t \in Tasks :
             CleanupRemoves(t)
                => /\ tasks[t].admitted
                   /\ active_requests[tasks[t].user] = t]_vars

\* C39: for every text and every length of at least 1 the chunks split_text
\* returns, joined in their order, are the text: no character is dropped,
\* repeated or moved at a break.  While the loop runs the chunks made so far
\* are the text up to start.
C39_ChunksJoinToText ==
    /\ split.pc = "loop" => Flatten(split.chunks) = SubSeq(split.text, 1, split.start)
    /\ split.pc = "done" => Flatten(split.chunks) = split.text

\* The last character of a chunk, none being empty.
ChunkEnd(chunk) == chunk[Len(chunk)]

\* A text has been split into three chunks or more, one ending at white
\* space and one cut in the middle of a word.
C39_Witness ==
    /\ split.pc = "done" /\ Len(split.chunks) >= 3
    /\ \E k \in 1..(Len(split.chunks) - 1) : ChunkEnd(split.chunks[k]) \in {"\n", " "}
    /\ \E k \in 1..(Len(split.chunks) - 1) : ChunkEnd(split.chunks[k]) = "a"

====
